---- MODULE Spec2Model ----
(***************************************************************************)
(* A model of minecraftLauncher.go: func main from the point where the     *)
(* profile database and the version's launch configuration have been       *)
(* decoded (line 147) to the end of the process.  Strings are TLA+         *)
(* strings; a file's bytes are a sequence of numbers in 0..255.            *)
(***************************************************************************)
EXTENDS Integers, Sequences, FiniteSets, TLC

VARIABLES
    goos,        \* runtime.GOOS
    manifest,    \* launchConfig.Libraries
    template,    \* launchConfig.Args
    playerName,  \* profileData.Users[*user].Name
    pc,          \* position of the control thread in main
    i,           \* number of libraries the range loop has finished with
    allowed,     \* the loop's local variable allowed
    signature,   \* the 40-byte buffer signature
    hash,        \* bytes written to hash since sha1.New() or the last Reset
    j,           \* number of zip entries the ZipLoop has finished with
    natives,     \* the natives directory: does it exist, the files in it
    libraries,   \* the slice libraries
    args,        \* the slice args
    child,       \* the java process: "none", "running", "exited", "startfailed"
    childStatus, \* the exit status of the java process
    relays,      \* have the two go io.Copy statements run
    stream,      \* per stream, the child's final chunk of output
    exitStatus,  \* exit status of the launcher, NoStatus while it runs
    hist         \* history of what main did, for stating properties

vars == <<goos, manifest, template, playerName, pc, i, allowed, signature, hash, j,
          natives, libraries, args, child, childStatus, relays, stream,
          exitStatus, hist>>

----------------------------------------------------------------------------
(* Bounds and program constants *)

MaxLibs == 2
MaxRules == 2
MaxTokens == 2

SigLen == 40
Sha1Size == 20

\* not an exit status a process can end with: the launcher is still running
NoStatus == 0 - 1

----------------------------------------------------------------------------
(* Strings *)

CharAt(s, n) == SubSeq(s, n, n)

\* strings.Split(s, sep) for a one-character sep
RECURSIVE SplitFrom(_, _, _, _)
SplitFrom(s, sep, start, n) ==
    IF n > Len(s) THEN <<SubSeq(s, start, Len(s))>>
    ELSE IF CharAt(s, n) = sep
         THEN <<SubSeq(s, start, n - 1)>> \o SplitFrom(s, sep, n + 1, n + 1)
         ELSE SplitFrom(s, sep, start, n + 1)

Split(s, sep) == SplitFrom(s, sep, 1, 1)

\* strings.SplitN(s, sep, 2): cut at the first sep only
SplitN2(s, sep) ==
    LET at == {n \in 1..Len(s) : CharAt(s, n) = sep}
    IN  IF at = {} THEN <<s>>
        ELSE LET f == CHOOSE n \in at : \A m \in at : n <= m
             IN  <<SubSeq(s, 1, f - 1), SubSeq(s, f + 1, Len(s))>>

\* strings.Join(elems, sep)
RECURSIVE Join(_, _)
Join(elems, sep) ==
    IF elems = <<>> THEN ""
    ELSE IF Len(elems) = 1 THEN elems[1]
    ELSE elems[1] \o sep \o Join(Tail(elems), sep)

\* path.Clean on the segments of a path: empty and "." segments go, ".." drops
\* the segment before it
RECURSIVE CleanSegs(_, _)
CleanSegs(segs, acc) ==
    IF segs = <<>> THEN acc
    ELSE LET h == Head(segs)
         IN  IF h = "" \/ h = "." THEN CleanSegs(Tail(segs), acc)
             ELSE IF h = ".."
                  THEN CleanSegs(Tail(segs),
                                 IF acc = <<>> THEN acc ELSE SubSeq(acc, 1, Len(acc) - 1))
                  ELSE CleanSegs(Tail(segs), Append(acc, h))

\* path.Clean, for the paths main builds: rooted ones, and relative ones that
\* do not climb above their start
Clean(p) ==
    LET body == Join(CleanSegs(Split(p, "/"), <<>>), "/")
    IN  IF Len(p) > 0 /\ CharAt(p, 1) = "/" THEN "/" \o body
        ELSE IF body = "" THEN "." ELSE body

SelectNonEmpty(elems) == SelectSeq(elems, LAMBDA e : e # "")

\* path.Join(elems...): the non-empty elements joined with "/", then cleaned
PathJoin(elems) == Clean(Join(SelectNonEmpty(elems), "/"))

\* the segments of a cleaned rooted path
Segs(p) == CleanSegs(Split(p, "/"), <<>>)

\* file.Name[:len(exclude)] == exclude, guarded by the length test
HasPrefix(name, exclude) ==
    Len(name) >= Len(exclude) /\ SubSeq(name, 1, Len(exclude)) = exclude

----------------------------------------------------------------------------
(* Program constants (lines 18-26, 68) *)

versionsDir == "versions"
libraryDir == "libraries"
jarExt == ".jar"
sigExt == ".sha"
allow == "allow"

hex == <<"0", "1", "2", "3", "4", "5", "6", "7", "8", "9", "a", "b", "c", "d", "e", "f">>

\* a Go map lookup: the zero value when the key is absent
MapGet(m, k, zero) == IF k \in DOMAIN m THEN m[k] ELSE zero

NoMap == [k \in {} |-> ""]

----------------------------------------------------------------------------
(* crypto/sha1, as far as main relies on it: a digest of Sha1Size bytes that  *)
(* is a function of all the bytes written since the last Reset.  The mixing   *)
(* below stands for SHA-1's.                                                  *)

RECURSIVE Mix(_, _)
Mix(bs, h) == IF bs = <<>> THEN h ELSE Mix(Tail(bs), (h * 33 + Head(bs) + 1) % 65536)

\* hash.Sum(nil) when bs are the bytes written to hash
Sha1Sum(bs) ==
    LET h == Mix(bs, 5381)
    IN  [k \in 1..Sha1Size |-> (h * k + (h \div 256) + k * k) % 256]

LowerHexDigit(c) ==
    CASE c = "A" -> "a" [] c = "B" -> "b" [] c = "C" -> "c"
      [] c = "D" -> "d" [] c = "E" -> "e" [] c = "F" -> "f" [] OTHER -> c

\* a comparison that takes hex digits of either case
SignatureMatchesAnyCase(sum, sig) ==
    \A n \in 0..(Len(sum) - 1) :
        LET b == sum[n + 1]
        IN  /\ hex[(b \div 16) + 1] = LowerHexDigit(CharAt(sig, 2 * n + 1))
            /\ hex[(b % 16) + 1] = LowerHexDigit(CharAt(sig, 2 * n + 2))

\* line 197, over the whole of hash.Sum(nil): no byte makes fail's test true.
\* n counts from 0; b>>4 is b \div 16, b&15 is b % 16, n<<1+1 is (n<<1)+1.
SignatureMatches(sum, sig) ==
    \A n \in 0..(Len(sum) - 1) :
        LET b == sum[n + 1]
        IN  ~(\/ hex[(b \div 16) + 1] # CharAt(sig, 2 * n + 1)
              \/ hex[(b % 16) + 1] # CharAt(sig, 2 * n + 2))

----------------------------------------------------------------------------
(* Rule evaluation (lines 162-168) *)

\* one iteration of the loop over library.Rules
RuleStep(acc, rule, osStr) ==
    IF rule.OS = osStr \/ rule.OS = "" THEN rule.Action = allow ELSE acc

RECURSIVE RuleLoop(_, _, _)
RuleLoop(acc, rules, osStr) ==
    IF rules = <<>> THEN acc
    ELSE RuleLoop(RuleStep(acc, Head(rules), osStr), Tail(rules), osStr)

\* allowed starting out true whatever the rules
RuleAllowedDefaultTrue(rules, osStr) == RuleLoop(TRUE, rules, osStr)

\* the value of allowed at line 169
RuleAllowed(rules, osStr) == RuleLoop(Len(rules) = 0, rules, osStr)

\* lines 147-151
OsStr(g) == IF g = "darwin" THEN "osx" ELSE g

----------------------------------------------------------------------------
(* Coordinate resolution (lines 172-180, 227-228) *)

Pieces(name) == SplitN2(name, ":")

LibrarySplit(name) == Split(Pieces(name)[2], ":")

PathSplit(name) == Split(Pieces(name)[1], ".") \o LibrarySplit(name)

\* library.Natives[osStr]
Classifier(lib, osStr) == MapGet(lib.Natives, osStr, "")

NativeFilename(lib, osStr) ==
    Join(LibrarySplit(lib.Name), "-") \o "-" \o Classifier(lib, osStr) \o jarExt

NativeLib(dir, lib, osStr) ==
    PathJoin(<<PathJoin(<<dir, libraryDir>>),
               PathJoin(Append(PathSplit(lib.Name), NativeFilename(lib, osStr)))>>)

LPath(dir, lib) ==
    PathJoin(<<PathJoin(<<dir, libraryDir>>),
               PathJoin(Append(PathSplit(lib.Name),
                               Join(LibrarySplit(lib.Name), "-") \o jarExt))>>)

----------------------------------------------------------------------------
(* Argument substitution (lines 247-261) *)

\* a switch whose default drops a placeholder it does not know
SubstituteTokenDropsUnknown(arg, ctx) ==
    CASE arg = "${auth_player_name}" -> ctx.Name
      [] arg = "${auth_session}" -> "token:" \o ctx.AccessToken \o ":" \o ctx.user
      [] arg = "${version_name}" -> ctx.ID
      [] arg = "${game_directory}" -> ctx.minecraftDir
      [] arg = "${game_assets}" -> PathJoin(<<ctx.minecraftDir, "assets", "virtual", "legacy">>)
      [] OTHER -> IF HasPrefix(arg, "${") THEN "" ELSE arg

\* the switch on one element of ma
SubstituteToken(arg, ctx) ==
    CASE arg = "${auth_player_name}" -> ctx.Name
      [] arg = "${auth_session}" -> "token:" \o ctx.AccessToken \o ":" \o ctx.user
      [] arg = "${version_name}" -> ctx.ID
      [] arg = "${game_directory}" -> ctx.minecraftDir
      [] arg = "${game_assets}" -> PathJoin(<<ctx.minecraftDir, "assets", "virtual", "legacy">>)
      [] OTHER -> arg

SplitArgs(t) == Split(t, " ")

SubstituteArgs(t, ctx) ==
    LET ma == SplitArgs(t)
    IN  [k \in 1..Len(ma) |-> SubstituteToken(ma[k], ctx)]

----------------------------------------------------------------------------
(* The run's inputs that stay fixed: the flags and the selected profile and  *)
(* user (lines 81-145), and the files under the libraries directory.         *)

MinecraftDir == "/m"
VersionID == "1.7"
SelectedUser == "u1"
AccessToken == "tok"
MainClass == "net.minecraft.client.main.Main"
MainTemplate == "--username ${auth_player_name} --gameDir ${game_directory}"

\* what the substitution reads of profileData and the flags
Ctx(name) ==
    [Name |-> name, AccessToken |-> AccessToken, user |-> SelectedUser,
     ID |-> VersionID, minecraftDir |-> MinecraftDir]

\* line 137
VersionDir == PathJoin(<<MinecraftDir, versionsDir, VersionID>>)

\* line 153
NativesDir == PathJoin(<<VersionDir, "natives">>)

Rule(action, os) == [Action |-> action, OS |-> os]

Lib(name, rules, nats, extract) ==
    [Name |-> name, Rules |-> rules, Natives |-> nats, Extract |-> extract]

BothNatives == [linux |-> "natives-linux", osx |-> "natives-osx"]

LibPlain == Lib("com.example:lib:1.2.3", <<>>, NoMap, NoMap)
LibRuled == Lib("org.x:ruled:1", <<Rule("allow", ""), Rule("disallow", "linux")>>, NoMap, NoMap)
LibJinput == Lib("org.l:jinput:2", <<>>, BothNatives, [exclude |-> <<"META-INF/">>])
LibStale == Lib("org.l:stale:1", <<>>, BothNatives, NoMap)
LibNested == Lib("org.l:nested:1", <<>>, BothNatives, [exclude |-> <<"doc">>])
LibBad == Lib("bad-format", <<>>, NoMap, NoMap)
LibWin == Lib("org.w:win:1", <<Rule("allow", "")>>,
              [windows |-> "natives-windows", osx |-> "natives-osx"], NoMap)
LibDenied == Lib("org.l:denied:1", <<Rule("allow", ""), Rule("disallow", "linux")>>,
                 BothNatives, NoMap)

Catalogue ==
    {LibPlain, LibRuled, LibJinput, LibStale, LibNested, LibBad, LibWin, LibDenied}

\* what sha1sum writes for a file: two lowercase hex digits per digest byte
RECURSIVE HexString(_)
HexString(sum) ==
    IF sum = <<>> THEN ""
    ELSE hex[(Head(sum) \div 16) + 1] \o hex[(Head(sum) % 16) + 1] \o HexString(Tail(sum))

UpperHexDigit(c) ==
    CASE c = "a" -> "A" [] c = "b" -> "B" [] c = "c" -> "C"
      [] c = "d" -> "D" [] c = "e" -> "E" [] c = "f" -> "F" [] OTHER -> c

RECURSIVE UpperHex(_)
UpperHex(str) ==
    IF str = "" THEN "" ELSE UpperHexDigit(CharAt(str, 1)) \o UpperHex(Tail(str))

SigFile(data) == [kind |-> "sig", data |-> data]
JarFile(bytes, zip, files) == [kind |-> "jar", bytes |-> bytes, zip |-> zip, files |-> files]

JinputBytes == <<80, 75, 3, 4>>
StaleBytes == <<80, 75, 7>>
NestedBytes == <<80, 75, 5, 6>>
PlainBytes == <<1, 2>>

\* The files under MinecraftDir/libraries.  On linux: jinput and denied are
\* sound, stale's archive changed by one byte after its digest was taken,
\* nested is sound and holds an entry in a sub-directory.  On osx: jinput is no
\* zip archive, stale's digest file is cut short, nested's digest is in upper
\* case, denied has no archive, win has no files at all.
Disk ==
    LET lin(l) == NativeLib(MinecraftDir, l, "linux")
        osx(l) == NativeLib(MinecraftDir, l, "osx")
    IN  (lin(LibJinput) \o sigExt :> SigFile(HexString(Sha1Sum(JinputBytes)) \o "\n"))
     @@ (lin(LibJinput) :> JarFile(JinputBytes, TRUE,
                                   <<"liba.so", "META-INF/", "META-INF/MANIFEST.MF">>))
     @@ (lin(LibStale) \o sigExt :> SigFile(HexString(Sha1Sum(<<80, 75, 6>>))))
     @@ (lin(LibStale) :> JarFile(StaleBytes, TRUE, <<"libb.so">>))
     @@ (lin(LibNested) \o sigExt :> SigFile(HexString(Sha1Sum(NestedBytes))))
     @@ (lin(LibNested) :> JarFile(NestedBytes, TRUE,
                                   <<"docs.txt", "libc.so", "sub/libd.so", "libe.so">>))
     @@ (lin(LibDenied) \o sigExt :> SigFile(HexString(Sha1Sum(PlainBytes))))
     @@ (lin(LibDenied) :> JarFile(PlainBytes, TRUE, <<"libf.so">>))
     @@ (osx(LibJinput) \o sigExt :> SigFile(HexString(Sha1Sum(PlainBytes))))
     @@ (osx(LibJinput) :> JarFile(PlainBytes, FALSE, <<>>))
     @@ (osx(LibStale) \o sigExt :> SigFile(SubSeq(HexString(Sha1Sum(StaleBytes)), 1, SigLen - 1)))
     @@ (osx(LibStale) :> JarFile(StaleBytes, TRUE, <<"libb.dylib">>))
     @@ (osx(LibNested) \o sigExt :> SigFile(UpperHex(HexString(Sha1Sum(NestedBytes)))))
     @@ (osx(LibNested) :> JarFile(NestedBytes, TRUE, <<"libc.dylib">>))
     @@ (osx(LibDenied) \o sigExt :> SigFile(HexString(Sha1Sum(PlainBytes))))

GOOS == {"linux", "darwin"}

ExitCodes == {0, 1}

Streams == {"stdout", "stderr"}

RECURSIVE SeqsUpTo(_, _)
SeqsUpTo(S, n) ==
    IF n = 0 THEN {<<>>}
    ELSE LET shorter == SeqsUpTo(S, n - 1)
         IN  shorter \cup {Append(q, x) : q \in shorter, x \in S}

----------------------------------------------------------------------------
(* The file system under the version directory *)

Parent(p) ==
    LET segs == Segs(p)
    IN  "/" \o Join(SubSeq(segs, 1, Len(segs) - 1), "/")

\* the directories that exist: nothing main does creates one below NativesDir
IsDir(p, nat) ==
    \/ p = NativesDir /\ nat.exists
    \/ p \in {"/", MinecraftDir, PathJoin(<<MinecraftDir, versionsDir>>), VersionDir}

\* os.Create(p) succeeds
CanCreate(p, nat) == ~IsDir(p, nat) /\ IsDir(Parent(p), nat)

\* lines 211-215: some exclude is a prefix of the entry's name
Excluded(name, excludes) ==
    \E k \in 1..Len(excludes) : HasPrefix(name, excludes[k])

\* line 216
Destination(name) == PathJoin(<<NativesDir, name>>)

\* the new path put in front
AppendLibraryFront(libs, lPath) == <<lPath>> \o libs

\* line 229
AppendLibrary(libs, lPath) == Append(libs, lPath)

\* lines 235-245 and 262
BuildArgv(libs, t, ctx) ==
    <<"-Xmx1G",
      "-XX:+UseConcMarkSweepGC",
      "-XX:+CMSIncrementalMode",
      "-XX:-UseAdaptiveSizePolicy",
      "-Xmn128M",
      "-Djava.library.path=" \o NativesDir,
      "-cp",
      Join(libs, ":"),
      MainClass>> \o SubstituteArgs(t, ctx)

\* a Wait that also waits for both relays to end
WaitReadyJoined ==
    /\ child \in {"startfailed", "exited"}
    /\ \A s \in DOMAIN stream : stream[s].relay \in {"eof", "cut"}

\* cmd.Wait() returns: the process was not started, or it has exited
WaitReady == child \in {"startfailed", "exited"}

----------------------------------------------------------------------------
(* Initial states *)

NoStream == [chunk |-> "none", relay |-> "none", closed |-> FALSE]

NoHist ==
    [mkdirs |-> 0, checked |-> {}, verified |-> {}, written |-> {}, skipped |-> {},
     extracted |-> {}, cp |-> <<>>, fatal |-> FALSE, waited |-> FALSE, removed |-> FALSE]

InitWith(manifests, templates, names, platforms) ==
    /\ goos \in platforms
    /\ manifest \in manifests
    /\ template \in templates
    /\ playerName \in names
    /\ pc = "mkdir"
    /\ i = 0
    /\ allowed = FALSE
    /\ signature = ""
    /\ hash = <<>>
    /\ j = 0
    /\ natives = [exists |-> FALSE, files |-> {}]
    /\ libraries = <<>>
    /\ args = <<>>
    /\ child = "none"
    /\ childStatus = NoStatus
    /\ relays = FALSE
    /\ stream = [s \in Streams |-> NoStream]
    /\ exitStatus = NoStatus
    /\ hist = NoHist

Init == InitWith(SeqsUpTo(Catalogue, MaxLibs), {MainTemplate}, {"Alice"}, GOOS)

----------------------------------------------------------------------------
(* The control thread *)

Cur == manifest[i + 1]

osStr == OsStr(goos)

\* fail(true, ...): the message, then os.Exit(0) (lines 70-75)
Fatal ==
    /\ pc' = "exited"
    /\ exitStatus' = 0

\* line 155
Mkdir ==
    /\ pc = "mkdir"
    /\ natives' = [natives EXCEPT !.exists = TRUE]
    /\ hist' = [hist EXCEPT !.mkdirs = @ + 1]
    /\ pc' = "loop"
    /\ UNCHANGED <<goos, manifest, template, playerName, i, allowed, signature, hash, j,
                   libraries, args, child, childStatus, relays, stream, exitStatus>>

\* lines 161-168
EvalRules ==
    /\ pc = "loop"
    /\ i < Len(manifest)
    /\ allowed' = RuleAllowed(Cur.Rules, osStr)
    /\ pc' = "ruled"
    /\ UNCHANGED <<goos, manifest, template, playerName, i, signature, hash, j, natives,
                   libraries, args, child, childStatus, relays, stream, exitStatus, hist>>

\* lines 169-171
SkipDenied ==
    /\ pc = "ruled"
    /\ ~allowed
    /\ i' = i + 1
    /\ pc' = "loop"
    /\ UNCHANGED <<goos, manifest, template, playerName, allowed, signature, hash, j,
                   natives, libraries, args, child, childStatus, relays, stream,
                   exitStatus, hist>>

\* lines 172-173, the library's name has no ":"
FailFormat ==
    /\ pc = "ruled"
    /\ allowed
    /\ Len(Pieces(Cur.Name)) # 2
    /\ Fatal
    /\ hist' = [hist EXCEPT !.fatal = TRUE]
    /\ UNCHANGED <<goos, manifest, template, playerName, i, allowed, signature, hash, j,
                   natives, libraries, args, child, childStatus, relays, stream>>

\* lines 172-178 and 226-230
AddClasspath ==
    /\ pc = "ruled"
    /\ allowed
    /\ Len(Pieces(Cur.Name)) = 2
    /\ ~(Classifier(Cur, osStr) # "")
    /\ signature' = ""
    /\ libraries' = AppendLibrary(libraries, LPath(MinecraftDir, Cur))
    /\ hist' = [hist EXCEPT !.cp = Append(@, i + 1)]
    /\ i' = i + 1
    /\ pc' = "loop"
    /\ UNCHANGED <<goos, manifest, template, playerName, allowed, hash, j, natives, args,
                   child, childStatus, relays, stream, exitStatus>>

\* lines 172-188: the signature file is opened and 40 bytes of it are read
ReadSignature ==
    /\ pc = "ruled"
    /\ allowed
    /\ Len(Pieces(Cur.Name)) = 2
    /\ Classifier(Cur, osStr) # ""
    /\ LET sig == NativeLib(MinecraftDir, Cur, osStr) \o sigExt
       IN  IF sig \notin DOMAIN Disk \/ Len(Disk[sig].data) < SigLen
           THEN /\ Fatal
                /\ hist' = [hist EXCEPT !.fatal = TRUE]
                /\ UNCHANGED signature
           ELSE /\ signature' = SubSeq(Disk[sig].data, 1, SigLen)
                /\ pc' = "hash"
                /\ UNCHANGED <<exitStatus, hist>>
    /\ UNCHANGED <<goos, manifest, template, playerName, i, allowed, hash, j, natives,
                   libraries, args, child, childStatus, relays, stream>>

\* lines 190-200: the archive is hashed and the digest compared
HashArchive ==
    /\ pc = "hash"
    /\ LET lib == NativeLib(MinecraftDir, Cur, osStr)
       IN  IF lib \notin DOMAIN Disk
           THEN /\ Fatal
                /\ hist' = [hist EXCEPT !.fatal = TRUE]
                /\ UNCHANGED hash
           ELSE LET written == hash \o Disk[lib].bytes
                IN  IF SignatureMatches(Sha1Sum(written), signature)
                    THEN /\ hash' = <<>>
                         /\ hist' = [hist EXCEPT !.checked = @ \cup {i + 1},
                                                 !.verified = @ \cup {i + 1}]
                         /\ pc' = "zip"
                         /\ UNCHANGED exitStatus
                    ELSE /\ hash' = written
                         /\ Fatal
                         /\ hist' = [hist EXCEPT !.checked = @ \cup {i + 1},
                                                 !.fatal = TRUE]
    /\ UNCHANGED <<goos, manifest, template, playerName, i, allowed, signature, j, natives,
                   libraries, args, child, childStatus, relays, stream>>

\* lines 202-208
OpenZip ==
    /\ pc = "zip"
    /\ IF Disk[NativeLib(MinecraftDir, Cur, osStr)].zip
       THEN /\ j' = 0
            /\ pc' = "extract"
            /\ UNCHANGED <<exitStatus, hist>>
       ELSE /\ Fatal
            /\ hist' = [hist EXCEPT !.fatal = TRUE]
            /\ UNCHANGED j
    /\ UNCHANGED <<goos, manifest, template, playerName, i, allowed, signature, hash,
                   natives, libraries, args, child, childStatus, relays, stream>>

\* lines 210-224, one entry of the archive
ExtractEntry ==
    /\ pc = "extract"
    /\ LET files == Disk[NativeLib(MinecraftDir, Cur, osStr)].files
       IN  /\ j < Len(files)
           /\ LET name == files[j + 1]
              IN  IF Excluded(name, MapGet(Cur.Extract, "exclude", <<>>))
                  THEN /\ j' = j + 1
                       /\ hist' = [hist EXCEPT !.skipped = @ \cup {<<i + 1, name>>}]
                       /\ UNCHANGED <<pc, exitStatus, natives>>
                  ELSE IF CanCreate(Destination(name), natives)
                  THEN /\ natives' = [natives EXCEPT !.files = @ \cup {Destination(name)}]
                       /\ hist' = [hist EXCEPT !.written = @ \cup {<<i + 1, name>>}]
                       /\ j' = j + 1
                       /\ UNCHANGED <<pc, exitStatus>>
                  ELSE /\ Fatal
                       /\ hist' = [hist EXCEPT !.fatal = TRUE]
                       /\ UNCHANGED <<j, natives>>
    /\ UNCHANGED <<goos, manifest, template, playerName, i, allowed, signature, hash,
                   libraries, args, child, childStatus, relays, stream>>

\* the loop body without its else: the native library goes on the classpath too
EndExtractAddsClasspath ==
    /\ pc = "extract"
    /\ j = Len(Disk[NativeLib(MinecraftDir, manifest[i + 1], OsStr(goos))].files)
    /\ libraries' = Append(libraries, LPath(MinecraftDir, manifest[i + 1]))
    /\ hist' = [hist EXCEPT !.extracted = @ \cup {i + 1}, !.cp = Append(@, i + 1)]
    /\ i' = i + 1
    /\ pc' = "loop"
    /\ UNCHANGED <<goos, manifest, template, playerName, allowed, signature, hash, j,
                   natives, args, child, childStatus, relays, stream, exitStatus>>

\* line 225 and the end of the loop body
EndExtract ==
    /\ pc = "extract"
    /\ j = Len(Disk[NativeLib(MinecraftDir, Cur, osStr)].files)
    /\ hist' = [hist EXCEPT !.extracted = @ \cup {i + 1}]
    /\ i' = i + 1
    /\ pc' = "loop"
    /\ UNCHANGED <<goos, manifest, template, playerName, allowed, signature, hash, j,
                   natives, libraries, args, child, childStatus, relays, stream,
                   exitStatus>>

\* lines 233-263
BuildArgs ==
    /\ pc = "loop"
    /\ i = Len(manifest)
    /\ LET libs == Append(libraries, PathJoin(<<VersionDir, VersionID \o jarExt>>))
       IN  /\ libraries' = libs
           /\ args' = BuildArgv(libs, template, Ctx(playerName))
    /\ pc' = "pipe"
    /\ UNCHANGED <<goos, manifest, template, playerName, i, allowed, signature, hash, j,
                   natives, child, childStatus, relays, stream, exitStatus, hist>>

\* lines 272-281: StdoutPipe's error makes main return; StderrPipe's is dropped
OpenPipes ==
    /\ pc = "pipe"
    /\ \/ /\ pc' = "start"
          /\ UNCHANGED exitStatus
       \/ /\ pc' = "exited"
          /\ exitStatus' = 0
    /\ UNCHANGED <<goos, manifest, template, playerName, i, allowed, signature, hash, j,
                   natives, libraries, args, child, childStatus, relays, stream, hist>>

\* lines 282-285: when Start fails the message is written and main goes on;
\* Start has then closed both pipes
StartChild ==
    /\ pc = "start"
    /\ \/ /\ child' = "running"
          /\ UNCHANGED stream
       \/ /\ child' = "startfailed"
          /\ stream' = [s \in Streams |-> [stream[s] EXCEPT !.closed = TRUE]]
    /\ pc' = "go"
    /\ UNCHANGED <<goos, manifest, template, playerName, i, allowed, signature, hash, j,
                   natives, libraries, args, childStatus, relays, exitStatus, hist>>

\* lines 286-287
GoRelays ==
    /\ pc = "go"
    /\ relays' = TRUE
    /\ stream' = [s \in Streams |-> [stream[s] EXCEPT !.relay = "copying"]]
    /\ pc' = "wait"
    /\ UNCHANGED <<goos, manifest, template, playerName, i, allowed, signature, hash, j,
                   natives, libraries, args, child, childStatus, exitStatus, hist>>

\* line 288: Wait returns and has closed the read ends of both pipes; what
\* was still in a pipe is gone
WaitReturn ==
    /\ pc = "wait"
    /\ WaitReady
    /\ stream' = [s \in Streams |->
                    [stream[s] EXCEPT !.closed = TRUE,
                                      !.chunk = IF @ = "buffered" THEN "lost" ELSE @]]
    /\ hist' = [hist EXCEPT !.waited = TRUE]
    /\ pc' = "remove"
    /\ UNCHANGED <<goos, manifest, template, playerName, i, allowed, signature, hash, j,
                   natives, libraries, args, child, childStatus, relays, exitStatus>>

\* lines 289-290
RemoveAll ==
    /\ pc = "remove"
    /\ natives' = [exists |-> FALSE, files |-> {}]
    /\ hist' = [hist EXCEPT !.removed = TRUE]
    /\ pc' = "return"
    /\ UNCHANGED <<goos, manifest, template, playerName, i, allowed, signature, hash, j,
                   libraries, args, child, childStatus, relays, stream, exitStatus>>

\* line 291: main returns, the process ends with status 0
Return ==
    /\ pc = "return"
    /\ exitStatus' = 0
    /\ pc' = "exited"
    /\ UNCHANGED <<goos, manifest, template, playerName, i, allowed, signature, hash, j,
                   natives, libraries, args, child, childStatus, relays, stream, hist>>

----------------------------------------------------------------------------
(* The java process and the two relay goroutines *)

\* the child writes its last output to one of its streams
ChildWrite(s) ==
    /\ child = "running"
    /\ stream[s].chunk = "none"
    /\ stream' = [stream EXCEPT ![s].chunk = "buffered"]
    /\ UNCHANGED <<goos, manifest, template, playerName, pc, i, allowed, signature, hash,
                   j, natives, libraries, args, child, childStatus, relays, exitStatus,
                   hist>>

ChildExit(status) ==
    /\ child = "running"
    /\ child' = "exited"
    /\ childStatus' = status
    /\ UNCHANGED <<goos, manifest, template, playerName, pc, i, allowed, signature, hash,
                   j, natives, libraries, args, relays, stream, exitStatus, hist>>

\* io.Copy moves what is in the pipe to the launcher's own stream
RelayCopy(s) ==
    /\ exitStatus = NoStatus
    /\ stream[s].relay = "copying"
    /\ ~stream[s].closed
    /\ stream[s].chunk = "buffered"
    /\ stream' = [stream EXCEPT ![s].chunk = "delivered"]
    /\ UNCHANGED <<goos, manifest, template, playerName, pc, i, allowed, signature, hash,
                   j, natives, libraries, args, child, childStatus, relays, exitStatus,
                   hist>>

\* io.Copy returns: end-of-stream once the child is gone and the pipe is
\* empty, or an error once the pipe has been closed under it
RelayEnd(s) ==
    /\ exitStatus = NoStatus
    /\ stream[s].relay = "copying"
    /\ \/ /\ stream[s].closed
          /\ stream' = [stream EXCEPT ![s].relay = "cut"]
       \/ /\ ~stream[s].closed
          /\ child = "exited"
          /\ stream[s].chunk # "buffered"
          /\ stream' = [stream EXCEPT ![s].relay = "eof"]
    /\ UNCHANGED <<goos, manifest, template, playerName, pc, i, allowed, signature, hash,
                   j, natives, libraries, args, child, childStatus, relays, exitStatus,
                   hist>>

Next ==
    \/ Mkdir
    \/ EvalRules
    \/ SkipDenied
    \/ FailFormat
    \/ AddClasspath
    \/ ReadSignature
    \/ HashArchive
    \/ OpenZip
    \/ ExtractEntry
    \/ EndExtract
    \/ BuildArgs
    \/ OpenPipes
    \/ StartChild
    \/ GoRelays
    \/ WaitReturn
    \/ RemoveAll
    \/ Return
    \/ \E s \in Streams : ChildWrite(s)
    \/ \E status \in ExitCodes : ChildExit(status)
    \/ \E s \in Streams : RelayCopy(s)
    \/ \E s \in Streams : RelayEnd(s)

Spec == Init /\ [][Next]_vars

----------------------------------------------------------------------------
(* Specifications of parts of main, with wider inputs for the part *)

RuleSet == {Rule(a, o) : a \in {"allow", "disallow"}, o \in {"", "linux", "osx", "windows"}}

\* one ordinary library under every rule list, on every platform
InitRules ==
    InitWith({<<Lib("com.example:lib:1.2.3", rules, NoMap, NoMap)>> :
                 rules \in SeqsUpTo(RuleSet, MaxRules)},
             {MainTemplate}, {"Alice"}, {"linux", "darwin", "windows"})

NextRules == Mkdir \/ EvalRules \/ SkipDenied \/ AddClasspath \/ BuildArgs

SpecRules == InitRules /\ [][NextRules]_vars

Tokens ==
    {"${auth_player_name}", "${auth_session}", "${version_name}", "${game_directory}",
     "${game_assets}", "${unknown_token}", "--user", ""}

Separators == {" ", "\t"}

RECURSIVE Templates(_)
Templates(n) ==
    IF n <= 1 THEN Tokens
    ELSE LET shorter == Templates(n - 1)
         IN  shorter \cup {t \o sep \o tok : t \in shorter, sep \in Separators, tok \in Tokens}

\* no libraries, every template
InitSubst == InitWith({<<>>}, Templates(MaxTokens), {"Alice", "Al ice"}, {"linux"})

NextSubst == Mkdir \/ BuildArgs

SpecSubst == InitSubst /\ [][NextSubst]_vars

----------------------------------------------------------------------------
(* Reference definitions the properties are stated with *)

Max(S) == CHOOSE x \in S : \A y \in S : y <= x

\* the last rule that names the platform or no platform decides
RefAllowed(rules, platform) ==
    LET matching == {k \in 1..Len(rules) : rules[k].OS = platform \/ rules[k].OS = ""}
    IN  IF Len(rules) = 0 THEN TRUE
        ELSE IF matching = {} THEN FALSE
        ELSE rules[Max(matching)].Action = "allow"

Platform == IF goos = "darwin" THEN "osx" ELSE goos

LibAllowed(k) == RefAllowed(manifest[k].Rules, Platform)

LibNative(k) ==
    /\ Platform \in DOMAIN manifest[k].Natives
    /\ manifest[k].Natives[Platform] # ""

LibWellFormed(k) == \E n \in 1..Len(manifest[k].Name) : CharAt(manifest[k].Name, n) = ":"

ArchiveOf(k) == NativeLib(MinecraftDir, manifest[k], Platform)

\* the archives on disk whose digest file starts with the 40 lowercase hex
\* digits of the SHA-1 of the archive's bytes
SoundArchives ==
    {p \in DOMAIN Disk :
        /\ Disk[p].kind = "jar"
        /\ (p \o ".sha") \in DOMAIN Disk
        /\ Len(Disk[p \o ".sha"].data) >= 40
        /\ SubSeq(Disk[p \o ".sha"].data, 1, 40) = HexString(Sha1Sum(Disk[p].bytes))}

\* the digest file of library k holds the lowercase hex SHA-1 of its archive
DigestOK(k) == ArchiveOf(k) \in SoundArchives

StartsWith(name, prefix) == \E m \in 0..Len(name) : SubSeq(name, 1, m) = prefix

RefExcluded(k, name) ==
    /\ "exclude" \in DOMAIN manifest[k].Extract
    /\ \E e \in 1..Len(manifest[k].Extract["exclude"]) :
           StartsWith(name, manifest[k].Extract["exclude"][e])

Count(q, x) == Cardinality({n \in 1..Len(q) : q[n] = x})

\* the paths of the allowed, non-native libraries k..Len(manifest), in order
RECURSIVE RefClasspathFrom(_)
RefClasspathFrom(k) ==
    IF k > Len(manifest) THEN <<>>
    ELSE (IF LibAllowed(k) /\ ~LibNative(k) THEN <<LPath(MinecraftDir, manifest[k])>> ELSE <<>>)
         \o RefClasspathFrom(k + 1)

RefClasspath == RefClasspathFrom(1) \o <<"/m/versions/1.7/1.7.jar">>

Placeholders ==
    {"${auth_player_name}", "${auth_session}", "${version_name}", "${game_directory}",
     "${game_assets}"}

RefValue(tok) ==
    IF tok = "${auth_player_name}" THEN playerName
    ELSE IF tok = "${auth_session}" THEN "token:tok:u1"
    ELSE IF tok = "${version_name}" THEN "1.7"
    ELSE IF tok = "${game_directory}" THEN "/m"
    ELSE IF tok = "${game_assets}" THEN "/m/assets/virtual/legacy"
    ELSE tok

\* the positions in str of the characters in set cs
PositionsOf(str, cs) == {n \in 1..Len(str) : CharAt(str, n) \in cs}

\* the k-th piece of str when it is cut at every position in at
PieceAt(str, at, k) ==
    LET nth(m) == CHOOSE q \in at : Cardinality({r \in at : r < q}) = m - 1
        lo == IF k = 1 THEN 0 ELSE nth(k - 1)
        hi == IF k = Cardinality(at) + 1 THEN Len(str) + 1 ELSE nth(k)
    IN  SubSeq(str, lo + 1, hi - 1)

PiecesAt(str, at) == [k \in 1..(Cardinality(at) + 1) |-> PieceAt(str, at, k)]

Whitespace == {" ", "\t", "\n", "\r"}

\* the tokens of str between runs of whitespace
WhitespaceTokens(str) ==
    SelectSeq(PiecesAt(str, PositionsOf(str, Whitespace)), LAMBDA tok : tok # "")

\* the arguments after the main class
Substituted == SubSeq(args, 10, Len(args))

----------------------------------------------------------------------------
(* C1: no entry of a native archive is written to the natives directory     *)
(* unless the first 40 characters of its digest file are the lowercase hex  *)
(* SHA-1 of the archive's bytes; and when the digest of a native library    *)
(* that main reaches does not match, or the digest file or the archive      *)
(* cannot be read, main never gets past that library: nothing of it is      *)
(* written, no later library is processed and no child is started.          *)
C1_VerifiedBeforeExtraction ==
    /\ \A w \in hist.written : DigestOK(w[1])
    /\ \A k \in 1..Len(manifest) :
          (LibAllowed(k) /\ LibWellFormed(k) /\ LibNative(k) /\ ~DigestOK(k)) =>
              /\ i < k
              /\ child = "none"
              /\ (i = k - 1 => pc \in {"mkdir", "loop", "ruled", "hash", "exited"})
              /\ \A w \in hist.written \cup hist.skipped : w[1] < k

\* a first library was verified and extracted, the second failed verification
\* and the launcher has exited
C1_Witness ==
    /\ pc = "exited"
    /\ \E w \in hist.written : w[1] = 1
    /\ 2 \in hist.checked
    /\ 2 \notin hist.verified
    /\ ~DigestOK(2)

(* C2: at line 169 allowed is true for an empty rule list; otherwise it is   *)
(* what the last rule naming the current platform or no platform says, and  *)
(* false when no rule does.                                                 *)
C2_LastMatchWins ==
    pc = "ruled" => allowed = RefAllowed(manifest[i + 1].Rules, Platform)

\* a later wildcard allow overrode an earlier disallow for this platform
C2_Witness ==
    /\ pc = "ruled"
    /\ Len(manifest[i + 1].Rules) = 2
    /\ manifest[i + 1].Rules[1] = [Action |-> "disallow", OS |-> Platform]
    /\ manifest[i + 1].Rules[2] = [Action |-> "allow", OS |-> ""]
    /\ allowed

(* C3: once main is done with a verified native archive (it went on to the   *)
(* next library, or the launcher exited), no entry whose name starts with   *)
(* an exclusion prefix was written and every other entry was.               *)
C3_ExtractsAllButExcluded ==
    /\ \A w \in hist.written : ~RefExcluded(w[1], w[2])
    /\ \A k \in hist.verified :
          (k <= i \/ pc = "exited") =>
              LET files == Disk[ArchiveOf(k)].files
              IN  \A n \in 1..Len(files) :
                      Disk[ArchiveOf(k)].zip /\ ~RefExcluded(k, files[n])
                          => <<k, files[n]>> \in hist.written

(* C4: the natives directory is created once, before any library is         *)
(* processed; it is removed only when the child has terminated; and when    *)
(* the launcher ends after a child that terminated, it has been removed.    *)
C4_ScratchLifecycle ==
    /\ hist.mkdirs <= 1
    /\ (pc # "mkdir" => hist.mkdirs = 1)
    /\ (hist.removed => child = "exited")
    /\ (pc = "exited" /\ child = "exited" => hist.removed)

(* C5: when starting the child fails, the run ends there: no relay is       *)
(* started, the child is not waited on, and the natives directory is not    *)
(* touched.                                                                 *)
C5_SpawnFailureIsFatal ==
    child = "startfailed" =>
        /\ pc \in {"go", "exited"}
        /\ ~relays
        /\ ~hist.waited
        /\ ~hist.removed

(* C6: the launcher's exit status is the child's, and a run that a fatal     *)
(* error ended does not report the status of a successful launch, 0.        *)
C6_ExitStatusPropagated ==
    /\ (pc = "exited" /\ child = "exited" => exitStatus = childStatus)
    /\ (pc = "exited" /\ hist.fatal => exitStatus # 0)

(* C7: once built, the argument vector is the five tuning flags, the        *)
(* library path flag naming the natives directory, -cp, the paths of the    *)
(* allowed non-native libraries in manifest order and then the version's    *)
(* archive, the main class, and the substituted arguments; nothing else.    *)
C7_ArgumentVector ==
    pc \in {"pipe", "start", "go", "wait", "remove", "return"} =>
        args = <<"-Xmx1G", "-XX:+UseConcMarkSweepGC", "-XX:+CMSIncrementalMode",
                 "-XX:-UseAdaptiveSizePolicy", "-Xmn128M",
                 "-Djava.library.path=/m/versions/1.7/natives",
                 "-cp",
                 Join(RefClasspath, ":"),
                 "net.minecraft.client.main.Main",
                 "--username", playerName, "--gameDir", "/m">>

\* two ordinary libraries, in manifest order before the version's archive
C7_Witness ==
    /\ pc = "pipe"
    /\ manifest = <<LibWin, LibPlain>>
    /\ goos = "linux"
    /\ Len(RefClasspath) = 3

(* C8 as claimed: the substituted arguments are the whitespace-separated    *)
(* tokens of the template, each placeholder replaced by its value.          *)
C8_WhitespaceTokens ==
    pc = "pipe" =>
        LET toks == WhitespaceTokens(template)
        IN  Substituted = [k \in 1..Len(toks) |-> RefValue(toks[k])]

(* C8 amended: the template is cut at every single space character, so the   *)
(* output has one argument more than the template has spaces (adjacent,     *)
(* leading or trailing spaces give empty arguments, other whitespace does   *)
(* not separate); each piece that is one of the five placeholders is        *)
(* replaced by its value, every other piece is passed through unchanged.    *)
C8_SpaceTokens ==
    pc = "pipe" =>
        LET toks == PiecesAt(template, PositionsOf(template, {" "}))
        IN  /\ Len(Substituted) = Len(toks)
            /\ \A k \in 1..Len(toks) :
                  Substituted[k] = IF toks[k] \in Placeholders THEN RefValue(toks[k])
                                   ELSE toks[k]

\* a known and an unknown placeholder, and a player name with a space in it
C8_Witness ==
    /\ pc = "pipe"
    /\ template = "${auth_player_name} ${unknown_token}"
    /\ playerName = "Al ice"
    /\ Substituted = <<"Al ice", "${unknown_token}">>

(* C9: a denied library is neither verified, extracted nor on the           *)
(* classpath; an allowed library with a classifier for the platform is      *)
(* never on the classpath and, once main is done with it, was verified and  *)
(* extracted; any other allowed library is never verified or extracted and, *)
(* once main is done with it, is on the classpath exactly once.             *)
C9_ExactlyOneKind ==
    /\ pc \in {"mkdir", "loop", "ruled", "hash", "zip", "extract"} =>
          /\ Len(libraries) = Len(hist.cp)
          /\ \A n \in 1..Len(libraries) :
                libraries[n] = LPath(MinecraftDir, manifest[hist.cp[n]])
    /\ \A k \in 1..Len(manifest) :
          LET touched == \/ k \in hist.checked \cup hist.verified \cup hist.extracted
                         \/ \E w \in hist.written \cup hist.skipped : w[1] = k
          IN  /\ ~LibAllowed(k) => ~touched /\ Count(hist.cp, k) = 0
              /\ LibAllowed(k) /\ LibNative(k) =>
                    /\ Count(hist.cp, k) = 0
                    /\ (k <= i => k \in hist.verified /\ k \in hist.extracted)
              /\ LibAllowed(k) /\ ~LibNative(k) =>
                    /\ ~touched
                    /\ Count(hist.cp, k) <= 1
                    /\ (k <= i => Count(hist.cp, k) = 1)

\* a denied library with natives, then a native one, both done with
C9_Witness ==
    /\ pc = "pipe"
    /\ manifest = <<LibDenied, LibJinput>>
    /\ goos = "linux"
    /\ hist.extracted = {2}
    /\ hist.cp = <<>>

(* C10: the relays are started only after cmd.Start was called, and nothing  *)
(* the control thread does waits for them: Wait returns as soon as the      *)
(* child is gone, and the removal and the return follow, whatever the       *)
(* relays have done by then.                                                *)
C10_RelaysNotJoined ==
    /\ (relays => child # "none")
    /\ (pc = "wait" /\ child \in {"exited", "startfailed"} => ENABLED WaitReturn)
    /\ (pc = "remove" => ENABLED RemoveAll)
    /\ (pc = "return" => ENABLED Return)

\* the child has terminated and the directory is gone while a relay still
\* copies and the child's last output was lost
C10_Witness ==
    /\ child = "exited"
    /\ hist.removed
    /\ \E s \in Streams : stream[s].chunk = "lost" /\ stream[s].relay = "copying"

====
